---- MODULE Spec2Model ----
(***************************************************************************)
(* A model of server.go: the websocket connection hub (Hub, Client,        *)
(* handleWebSocket, readPump, writePump) and the visitor / location        *)
(* accounting (roundCoord, addLocationToDB).                               *)
(*                                                                         *)
(* A session is a number in Clients; the number stands for the random      *)
(* client ID of handleWebSocket (8 random bytes, taken to be unique).      *)
(* A buffered channel client.Send is the pair Send / sendClosed: Send[c]    *)
(* is the channel's buffer, oldest message first.                          *)
(*                                                                         *)
(* hub.mutex: a section under Lock is one action, enabled only when no     *)
(* goroutine holds RLock (NoReadLock).  A section under RLock that reads   *)
(* is one action; broadcastToOthers and the hub's broadcast case, which    *)
(* send on channels while holding RLock, take one step per recipient.      *)
(***************************************************************************)
EXTENDS Integers, Sequences, FiniteSets, TLC

\* Bounds of the model.
NClients == 3      \* sessions there are
MainSessions == 2  \* sessions that connect in a run of Spec
QueueCap == 2      \* capacity of client.Send in the model (256 in the code)
MaxMoves == 1      \* "move" messages read in a run
MaxPings == 1      \* "ping" messages read in a run
MaxPos == 1        \* distinct cursor positions a client may send
LongRunPings == 15 \* "ping" messages read in a run of SpecPing
PingSessions == 2  \* sessions that connect in a run of SpecPing
NCalls == 3        \* calls of addLocationToDB in a run
NVisitors == 2     \* visitor identities
MaxFaults == 1     \* SQL statements that fail in a run
MaxCoord == 8      \* largest coordinate of SpecRound, in thousandths

\* Program constants.
PingHistory == 10  \* recentPings keeps the last 10

Clients == 1..NClients
Positions == 1..MaxPos
Nil == 0           \* a nil pointer / absent field
Calls == 1..NCalls
Visitors == 1..NVisitors
\* The coordinates a request may carry: two that round to one key, and one
\* that rounds to another.
Coords == {<<1004, -2006>>, <<1006, -2006>>, <<1014, -2014>>}

VARIABLES
  clients,       \* key set of hub.clients
  Position,      \* Position[c]: client.Position (Nil until the first move)
  recentPings,   \* hub.recentPings
  Send,          \* Send[c]: the buffer of the channel client.Send
  sendClosed,    \* sendClosed[c]: close(client.Send) was called
  connClosed,    \* connClosed[c]: c.Conn.Close() was called
  handler,       \* handler[c]: where handleWebSocket is for this connection
  reader,        \* reader[c]: where readPump is
  readerMsg,     \* readerMsg[c]: the message readPump is broadcasting
  readerTodo,    \* readerTodo[c]: recipients left in readPump's broadcastToOthers
  writer,        \* writer[c]: where writePump is
  hubpc,         \* where Hub.run is
  hubClient,     \* Hub.run's local "client"
  hubOk,         \* Hub.run's local "ok" of the unregister case
  userCount,     \* Hub.run's local "userCount"
  hubMsg,        \* the message Hub.run is sending
  hubTodo,       \* recipients left in Hub.run's current fan-out
  now,           \* time.Now().Unix(), as the number of pings stamped so far
  crashed,       \* the process died of a panic in a goroutine
  fuel,          \* what is left of the bounds of the run
  locations,     \* the rows of table locations, in the order of their ids
  visitors,      \* table visitors: visitors[v] is the row's rounded pair
  call,          \* call[i]: a call of addLocationToDB, its locals and result
  faults         \* SQL statements that may still fail

hubVars == <<clients, Position, recentPings, Send, sendClosed,
             connClosed, handler, reader, readerMsg, readerTodo, writer,
             hubpc, hubClient, hubOk, userCount, hubMsg, hubTodo, now,
             crashed, fuel>>

visitVars == <<locations, visitors, call, faults>>

vars == <<hubVars, visitVars>>

----------------------------------------------------------------------------
\* CursorMessage and its makers.

CursorMessage(type, id, position, cursors, count, ping, pings) ==
  [type |-> type, id |-> id, position |-> position, cursors |-> cursors,
   userCount |-> count, ping |-> ping, pings |-> pings]

NoMsg == CursorMessage("", Nil, Nil, {}, 0, Nil, <<>>)

InitMsg(cursors, count, pings) ==
  CursorMessage("init", Nil, Nil, cursors, count, Nil, pings)

IdMsg(c) == CursorMessage("id", c, Nil, {}, 0, Nil, <<>>)

JoinMsg(c, count) == CursorMessage("join", c, Nil, {}, count, Nil, <<>>)

LeaveMsg(c, count) == CursorMessage("leave", c, Nil, {}, count, Nil, <<>>)

MoveMsg(c, p) == CursorMessage("move", c, p, {}, 0, Nil, <<>>)

PingMsg(c, ping) == CursorMessage("ping", c, Nil, {}, 0, ping, <<>>)

\* msg.Ping with its Timestamp set.  The fields the client sent are carried
\* as they came and are left out; the clock of the model ticks at every ping,
\* so that the timestamp tells the pings apart.
PingData(ts) == [timestamp |-> ts]

\* Mutant: c.Position != nil is not tested.
CursorsOfAll(c) == {<<id, Position[id]>> : id \in {d \in clients : d # c}}

\* The cursors of the init message: every other client that has a position.
Cursors(c) ==
  {<<id, Position[id]>> : id \in {d \in clients : d # c /\ Position[d] # Nil}}

\* Mutant: the ping is not stored.
AppendPingNot(pings, ping) == pings

\* Mutant: the history is cut to its first 10.
AppendPingKeepFirst(pings, ping) ==
  LET all == Append(pings, ping)
  IN IF Len(all) > PingHistory THEN SubSeq(all, 1, PingHistory) ELSE all

\* append, then keep the last 10.
AppendPing(pings, ping) ==
  LET all == Append(pings, ping)
  IN IF Len(all) > PingHistory
       THEN SubSeq(all, Len(all) - PingHistory + 1, Len(all))
       ELSE all

----------------------------------------------------------------------------
\* Channels and the mutex.

QLen(c) == Len(Send[c])

\* select { case client.Send <- m: default: } on an open channel.
Offered(c, m) ==
  IF QLen(c) < QueueCap
    THEN [Send EXCEPT ![c] = Append(@, m)]
    ELSE Send

\* No goroutine holds hub.mutex.RLock.
NoReadLock ==
  /\ hubpc \notin {"fanout", "broadcast"}
  /\ \A c \in Clients : reader[c] # "fanout"

\* Mutant: the test id != senderID is missing.
OthersNoTest(senderID) == clients

\* The recipients broadcastToOthers ranges over.
Others(senderID) == clients \ {senderID}

----------------------------------------------------------------------------
HubInit(f) ==
  /\ clients = {}
  /\ Position = [c \in Clients |-> Nil]
  /\ recentPings = <<>>
  /\ Send = [c \in Clients |-> <<>>]
  /\ sendClosed = [c \in Clients |-> FALSE]
  /\ connClosed = [c \in Clients |-> FALSE]
  /\ handler = [c \in Clients |-> "none"]
  /\ reader = [c \in Clients |-> "off"]
  /\ readerMsg = [c \in Clients |-> NoMsg]
  /\ readerTodo = [c \in Clients |-> {}]
  /\ writer = [c \in Clients |-> "off"]
  /\ hubpc = "select"
  /\ hubClient = Nil
  /\ hubOk = TRUE
  /\ userCount = 0
  /\ hubMsg = NoMsg
  /\ hubTodo = {}
  /\ now = 0
  /\ crashed = FALSE
  /\ fuel = f

----------------------------------------------------------------------------
\* handleWebSocket

\* Upgrade, make the Client, and block on hub.register <- client.  Sessions
\* connect in the order of their numbers (the IDs are fresh random tokens).
Connect(c) ==
  /\ ~crashed
  /\ UNCHANGED visitVars
  /\ handler[c] = "none"
  /\ \A d \in Clients : d < c => handler[d] # "none"
  /\ fuel.conns > 0
  /\ handler' = [handler EXCEPT ![c] = "register"]
  /\ fuel' = [fuel EXCEPT !.conns = @ - 1]
  /\ UNCHANGED <<clients, Position, recentPings, Send,
                 sendClosed, connClosed, reader, readerMsg, readerTodo,
                 writer, hubpc, hubClient, hubOk, userCount, hubMsg, hubTodo,
                 now, crashed>>

\* client.Send <- data (the "id" message, a blocking send), then start the
\* pumps.  A send on a closed channel panics; net/http recovers a handler's
\* panic, so only this handler ends.
SendId(c) ==
  /\ ~crashed
  /\ UNCHANGED visitVars
  /\ handler[c] = "sendId"
  /\ IF sendClosed[c]
       THEN /\ handler' = [handler EXCEPT ![c] = "panicked"]
            /\ UNCHANGED <<Send, writer, reader>>
       ELSE /\ QLen(c) < QueueCap
            /\ Send' = [Send EXCEPT ![c] = Append(@, IdMsg(c))]
            /\ handler' = [handler EXCEPT ![c] = "started"]
            /\ writer' = [writer EXCEPT ![c] = "run"]
            /\ reader' = [reader EXCEPT ![c] = "read"]
  /\ UNCHANGED <<clients, Position, recentPings, sendClosed,
                 connClosed, readerMsg, readerTodo, hubpc, hubClient, hubOk,
                 userCount, hubMsg, hubTodo, now, crashed, fuel>>

----------------------------------------------------------------------------
\* Hub.run

\* Back at the top of the for loop, in the select: the locals of the case are
\* gone.
HubSelects ==
  /\ hubpc' = "select"
  /\ hubClient' = Nil
  /\ hubOk' = TRUE
  /\ userCount' = 0
  /\ hubMsg' = NoMsg
  /\ hubTodo' = {}

\* Mutant: the count is taken before the client is added.
CountBeforeRegister(c) == Cardinality(clients)

\* h.clients[client.ID] = client; userCount := len(h.clients)
CountAfterRegister(c) == Cardinality(clients \cup {c})

\* case client := <-h.register, and the section under Lock.  Senders blocked
\* on a channel are served in the order they came.
HubRegister(c) ==
  /\ ~crashed
  /\ UNCHANGED visitVars
  /\ hubpc = "select"
  /\ handler[c] = "register"
  /\ \A d \in Clients : d < c => handler[d] # "register"
  /\ NoReadLock
  /\ clients' = clients \cup {c}
  /\ userCount' = CountAfterRegister(c)
  /\ hubClient' = c
  /\ hubpc' = "snapshot"
  /\ handler' = [handler EXCEPT ![c] = "sendId"]
  /\ UNCHANGED <<Position, recentPings, Send, sendClosed,
                 connClosed, reader, readerMsg, readerTodo, writer, hubOk,
                 hubMsg, hubTodo, now, crashed, fuel>>

\* The section under RLock: the cursors and a copy of recentPings.
HubSnapshot ==
  /\ ~crashed
  /\ UNCHANGED visitVars
  /\ hubpc = "snapshot"
  /\ hubMsg' = InitMsg(Cursors(hubClient), userCount, recentPings)
  /\ hubpc' = "init"
  /\ UNCHANGED <<clients, Position, recentPings, Send,
                 sendClosed, connClosed, handler, reader, readerMsg,
                 readerTodo, writer, hubClient, hubOk, userCount, hubTodo,
                 now, crashed, fuel>>

\* The non-blocking send of the init message, then broadcastToOthers takes
\* RLock for the join message (and returns at once when there is no other
\* client).
HubSendInit ==
  /\ ~crashed
  /\ UNCHANGED visitVars
  /\ hubpc = "init"
  /\ IF sendClosed[hubClient]
       THEN crashed' = TRUE /\ UNCHANGED Send
       ELSE Send' = Offered(hubClient, hubMsg) /\ UNCHANGED crashed
  /\ IF Others(hubClient) = {}
       THEN HubSelects
       ELSE /\ hubMsg' = JoinMsg(hubClient, userCount)
            /\ hubTodo' = Others(hubClient)
            /\ hubpc' = "fanout"
            /\ UNCHANGED <<hubClient, hubOk, userCount>>
  /\ UNCHANGED <<clients, Position, recentPings, sendClosed,
                 connClosed, handler, reader, readerMsg, readerTodo, writer,
                 now, fuel>>

\* Mutant: the delete and the close are not under the test.
InClientsAlways(c) == TRUE

\* _, ok := h.clients[client.ID] of the unregister case.
InClients(c) == c \in clients

\* case client := <-h.unregister: the section under Lock (close of a closed
\* channel panics, here in the hub's goroutine), then broadcastToOthers takes
\* RLock for the leave message.  The reader, past its send, closes the
\* connection and ends.
HubUnregister(c) ==
  /\ ~crashed
  /\ UNCHANGED visitVars
  /\ hubpc = "select"
  /\ reader[c] = "unregister"
  /\ NoReadLock
  /\ IF InClients(c)
       THEN /\ clients' = clients \ {c}
            /\ sendClosed' = [sendClosed EXCEPT ![c] = TRUE]
            /\ crashed' = sendClosed[c]
       ELSE UNCHANGED <<clients, sendClosed, crashed>>
  /\ IF Others(c) = {}
       THEN HubSelects
       ELSE /\ hubOk' = InClients(c)
            /\ userCount' = Cardinality(clients \ {c})
            /\ hubClient' = c
            /\ hubMsg' = LeaveMsg(c, Cardinality(clients \ {c}))
            /\ hubTodo' = Others(c)
            /\ hubpc' = "fanout"
  /\ reader' = [reader EXCEPT ![c] = "done"]
  /\ connClosed' = [connClosed EXCEPT ![c] = TRUE]
  /\ UNCHANGED <<Position, recentPings, Send, handler, readerMsg,
                 readerTodo, writer, now, fuel>>

\* One recipient of the hub's broadcastToOthers; after the last one it
\* returns, and the hub is back in the select.
HubFanoutStep(r) ==
  /\ ~crashed
  /\ UNCHANGED visitVars
  /\ hubpc = "fanout"
  /\ r \in hubTodo
  /\ IF sendClosed[r]
       THEN crashed' = TRUE /\ UNCHANGED Send
       ELSE Send' = Offered(r, hubMsg) /\ UNCHANGED crashed
  /\ IF hubTodo = {r}
       THEN HubSelects
       ELSE /\ hubTodo' = hubTodo \ {r}
            /\ UNCHANGED <<hubpc, hubClient, hubOk, userCount, hubMsg>>
  /\ UNCHANGED <<clients, Position, recentPings, sendClosed,
                 connClosed, handler, reader, readerMsg, readerTodo, writer,
                 now, fuel>>

\* case message := <-h.broadcast, and RLock.  The reader, past its send, goes
\* back to reading.
HubBroadcast(c) ==
  /\ ~crashed
  /\ UNCHANGED visitVars
  /\ hubpc = "select"
  /\ reader[c] = "pinged"
  /\ IF clients = {}
       THEN HubSelects
       ELSE /\ hubMsg' = readerMsg[c]
            /\ hubTodo' = clients
            /\ hubpc' = "broadcast"
            /\ UNCHANGED <<hubClient, hubOk, userCount>>
  /\ reader' = [reader EXCEPT ![c] = "read"]
  /\ readerMsg' = [readerMsg EXCEPT ![c] = NoMsg]
  /\ UNCHANGED <<clients, Position, recentPings, Send,
                 sendClosed, connClosed, handler, readerTodo, writer, now,
                 crashed, fuel>>

\* One recipient of the broadcast case: send, or on a full queue close the
\* channel and delete the client (under RLock).  After the last one, RUnlock.
HubBroadcastStep(r) ==
  /\ ~crashed
  /\ UNCHANGED visitVars
  /\ hubpc = "broadcast"
  /\ r \in hubTodo
  /\ IF sendClosed[r]
       THEN /\ crashed' = TRUE
            /\ UNCHANGED <<Send, sendClosed, clients>>
       ELSE IF QLen(r) < QueueCap
         THEN /\ Send' = [Send EXCEPT ![r] = Append(@, hubMsg)]
              /\ UNCHANGED <<sendClosed, clients, crashed>>
         ELSE /\ sendClosed' = [sendClosed EXCEPT ![r] = TRUE]
              /\ clients' = clients \ {r}
              /\ UNCHANGED <<Send, crashed>>
  /\ IF hubTodo = {r}
       THEN HubSelects
       ELSE /\ hubTodo' = hubTodo \ {r}
            /\ UNCHANGED <<hubpc, hubClient, hubOk, userCount, hubMsg>>
  /\ UNCHANGED <<Position, recentPings, connClosed, handler,
                 reader, readerMsg, readerTodo, writer, now, fuel>>

----------------------------------------------------------------------------
\* Client.readPump

\* Back in ReadMessage: the locals of the iteration are gone.
ReaderReads(c) ==
  /\ reader' = [reader EXCEPT ![c] = "read"]
  /\ readerMsg' = [readerMsg EXCEPT ![c] = NoMsg]
  /\ readerTodo' = [readerTodo EXCEPT ![c] = {}]

\* A "move" message with a position: the section under Lock.
ReadMove(c, p) ==
  /\ ~crashed
  /\ UNCHANGED visitVars
  /\ reader[c] = "read"
  /\ ~connClosed[c]
  /\ fuel.moves > 0
  /\ NoReadLock
  /\ Position' = IF c \in clients THEN [Position EXCEPT ![c] = p] ELSE Position
  /\ readerMsg' = [readerMsg EXCEPT ![c] = MoveMsg(c, p)]
  /\ reader' = [reader EXCEPT ![c] = "moved"]
  /\ fuel' = [fuel EXCEPT !.moves = @ - 1]
  /\ UNCHANGED <<clients, recentPings, Send, sendClosed,
                 connClosed, handler, readerTodo, writer, hubpc, hubClient,
                 hubOk, userCount, hubMsg, hubTodo, now, crashed>>

\* hub.broadcastToOthers(c.ID, data) takes RLock and starts to range over
\* hub.clients.
ReadMoveFanout(c) ==
  /\ ~crashed
  /\ UNCHANGED visitVars
  /\ reader[c] = "moved"
  /\ IF Others(c) = {}
       THEN ReaderReads(c)
       ELSE /\ readerTodo' = [readerTodo EXCEPT ![c] = Others(c)]
            /\ reader' = [reader EXCEPT ![c] = "fanout"]
            /\ UNCHANGED readerMsg
  /\ UNCHANGED <<clients, Position, recentPings, Send,
                 sendClosed, connClosed, handler, writer, hubpc, hubClient,
                 hubOk, userCount, hubMsg, hubTodo, now, crashed, fuel>>

\* The range goes on to its next entry, or broadcastToOthers returns.
ReaderNext(c, r) ==
  IF readerTodo[c] = {r}
    THEN ReaderReads(c)
    ELSE /\ readerTodo' = [readerTodo EXCEPT ![c] = @ \ {r}]
         /\ UNCHANGED <<reader, readerMsg>>

\* One recipient of the reader's broadcastToOthers.  The hub's broadcast case
\* may have closed the channel and deleted the client meanwhile (both
\* hold RLock): the send then panics and the process dies, or the range does
\* not produce the deleted entry.
ReadFanoutStep(c, r) ==
  /\ ~crashed
  /\ UNCHANGED visitVars
  /\ reader[c] = "fanout"
  /\ r \in readerTodo[c]
  /\ \/ /\ ~sendClosed[r]
        /\ Send' = Offered(r, readerMsg[c])
        /\ ReaderNext(c, r)
        /\ UNCHANGED crashed
     \/ /\ sendClosed[r]
        /\ crashed' = TRUE
        /\ UNCHANGED <<Send, readerTodo, reader, readerMsg>>
     \/ /\ sendClosed[r]
        /\ ReaderNext(c, r)
        /\ UNCHANGED <<Send, crashed>>
  /\ UNCHANGED <<clients, Position, recentPings, sendClosed,
                 connClosed, handler, writer, hubpc, hubClient, hubOk,
                 userCount, hubMsg, hubTodo, now, fuel>>

\* A "ping" message with a ping: the timestamp, the section under Lock, and
\* the reader blocks on hub.broadcast <- data.
ReadPing(c) ==
  /\ ~crashed
  /\ UNCHANGED visitVars
  /\ reader[c] = "read"
  /\ ~connClosed[c]
  /\ fuel.pings > 0
  /\ NoReadLock
  /\ now' = now + 1
  /\ recentPings' = AppendPing(recentPings, PingData(now + 1))
  /\ readerMsg' = [readerMsg EXCEPT ![c] = PingMsg(c, PingData(now + 1))]
  /\ reader' = [reader EXCEPT ![c] = "pinged"]
  /\ fuel' = [fuel EXCEPT !.pings = @ - 1]
  /\ UNCHANGED <<clients, Position, Send, sendClosed,
                 connClosed, handler, readerTodo, writer, hubpc, hubClient,
                 hubOk, userCount, hubMsg, hubTodo, crashed>>

\* ReadMessage fails (the peer went away, the read deadline passed, or the
\* connection was closed by writePump): break, and the deferred function
\* blocks on hub.unregister <- c.
ReadError(c) ==
  /\ ~crashed
  /\ UNCHANGED visitVars
  /\ reader[c] = "read"
  /\ reader' = [reader EXCEPT ![c] = "unregister"]
  /\ UNCHANGED <<clients, Position, recentPings, Send,
                 sendClosed, connClosed, handler, readerMsg, readerTodo,
                 writer, hubpc, hubClient, hubOk, userCount, hubMsg, hubTodo,
                 now, crashed, fuel>>

----------------------------------------------------------------------------
\* Client.writePump

\* case message, ok := <-c.Send with a message: write it; a failed write ends
\* the pump, whose deferred function closes the connection.
WriteMessage(c, ok) ==
  /\ ~crashed
  /\ UNCHANGED visitVars
  /\ writer[c] = "run"
  /\ QLen(c) > 0
  /\ Send' = [Send EXCEPT ![c] = Tail(@)]
  /\ writer' = [writer EXCEPT ![c] = IF ok THEN "run" ELSE "done"]
  /\ connClosed' = [connClosed EXCEPT ![c] = @ \/ ~ok]
  /\ UNCHANGED <<clients, Position, recentPings, sendClosed, handler,
                 reader, readerMsg, readerTodo, hubpc, hubClient, hubOk,
                 userCount, hubMsg, hubTodo, now, crashed, fuel>>

\* case message, ok := <-c.Send on the closed and drained channel: the close
\* frame, return.
WriteClose(c) ==
  /\ ~crashed
  /\ UNCHANGED visitVars
  /\ writer[c] = "run"
  /\ QLen(c) = 0
  /\ sendClosed[c]
  /\ writer' = [writer EXCEPT ![c] = "done"]
  /\ connClosed' = [connClosed EXCEPT ![c] = TRUE]
  /\ UNCHANGED <<clients, Position, recentPings, Send,
                 sendClosed, handler, reader, readerMsg, readerTodo, hubpc,
                 hubClient, hubOk, userCount, hubMsg, hubTodo, now, crashed,
                 fuel>>

\* case <-ticker.C and the probe cannot be written: return.
WriteTickerError(c) ==
  /\ ~crashed
  /\ UNCHANGED visitVars
  /\ writer[c] = "run"
  /\ writer' = [writer EXCEPT ![c] = "done"]
  /\ connClosed' = [connClosed EXCEPT ![c] = TRUE]
  /\ UNCHANGED <<clients, Position, recentPings, Send,
                 sendClosed, handler, reader, readerMsg, readerTodo, hubpc,
                 hubClient, hubOk, userCount, hubMsg, hubTodo, now, crashed,
                 fuel>>

----------------------------------------------------------------------------
\* The visitor / location accounting.  A coordinate is a whole number of
\* thousandths of a degree; a rounded coordinate a whole number of hundredths.
\* Each SQL statement is one action: the statements of one call are in no
\* transaction, so the statements of concurrent calls interleave.

\* Mutant: the digits after the second are cut off.
truncCoord(coord) == coord \div 10

\* roundCoord(coord, 2), math.Round(coord*100) / 100: to the nearest
\* hundredth.  (Round takes a tie away from zero; the inputs of the model
\* have none, as a tie of the decimal value need not be one of the float64
\* product.)
roundCoord(coord) ==
  IF coord >= 0 THEN (coord + 5) \div 10 ELSE -((5 - coord) \div 10)

\* latRounded, lngRounded of a call.
KeyOf(lat, lng) == <<roundCoord(lat), roundCoord(lng)>>

NoKey == <<>>      \* no row / NULL

\* The rows of locations with this lat_rounded, lng_rounded.
RowsAt(rows, key) == {k \in 1..Len(rows) : rows[k].key = key}

\* SELECT visitor_count FROM locations WHERE lat_rounded = ? AND
\* lng_rounded = ?, as QueryRow reads it: the first row, 0 for none.
VisitorCount(rows, key) ==
  IF RowsAt(rows, key) = {} THEN 0
  ELSE rows[CHOOSE k \in RowsAt(rows, key) :
              \A j \in RowsAt(rows, key) : k <= j].visitor_count

\* Mutant: the table has no UNIQUE(lat_rounded, lng_rounded).
InsertAlways(rows, lat, lng) ==
  Append(rows, [lat |-> lat, lng |-> lng, key |-> KeyOf(lat, lng),
                visitor_count |-> 1])

\* INSERT OR IGNORE INTO locations ... VALUES (?, ?, ?, ?, 1) under
\* UNIQUE(lat_rounded, lng_rounded).
InsertOrIgnore(rows, lat, lng) ==
  IF RowsAt(rows, KeyOf(lat, lng)) = {}
    THEN Append(rows, [lat |-> lat, lng |-> lng, key |-> KeyOf(lat, lng),
                       visitor_count |-> 1])
    ELSE rows

\* Mutant: the UPDATE has no WHERE.
IncrementEvery(rows, key) ==
  [k \in 1..Len(rows) |-> [rows[k] EXCEPT !.visitor_count = @ + 1]]

\* UPDATE locations SET visitor_count = visitor_count + 1 WHERE ...
IncrementCount(rows, key) ==
  [k \in 1..Len(rows) |->
     IF rows[k].key = key
       THEN [rows[k] EXCEPT !.visitor_count = @ + 1]
       ELSE rows[k]]

\* Mutant: no visit is taken for a repeated one.
NeverSameLocation(exists, old, key) == FALSE

\* exists && oldLat == latRounded && oldLng == lngRounded
SameLocation(exists, old, key) == exists /\ old = key

NoResponse == [Added |-> FALSE, IsFirst |-> FALSE, VisitorCount |-> 0]

NoCall == [pc |-> "idle", visitorID |-> Nil, lat |-> 0, lng |-> 0,
           exists |-> FALSE, old |-> NoKey, response |-> NoResponse,
           err |-> FALSE]

CallKey(i) == KeyOf(call[i].lat, call[i].lng)

VisitInit ==
  /\ locations = <<>>
  /\ visitors = [v \in Visitors |-> NoKey]
  /\ call = [i \in Calls |-> NoCall]
  /\ faults = MaxFaults

\* handleAddLocation calls addLocationToDB(loc.Lat, loc.Lng, visitorID) with
\* coordinates in range and the visitor's cookie.
AddLocation(i, v, coord) ==
  /\ call[i].pc = "idle"
  /\ \A j \in Calls : j < i => call[j].pc # "idle"
  /\ call' = [call EXCEPT ![i] = [NoCall EXCEPT !.pc = "checkVisitor",
                                   !.visitorID = v,
                                   !.lat = coord[1], !.lng = coord[2]]]
  /\ UNCHANGED <<hubVars, locations, visitors, faults>>

\* checkVisitorExists, and the test that sends a repeated visit to the early
\* return.
CheckVisitorExists(i) ==
  /\ call[i].pc = "checkVisitor"
  /\ LET v == call[i].visitorID
         exists == visitors[v] # NoKey
     IN call' = [call EXCEPT
                   ![i].exists = exists,
                   ![i].old = visitors[v],
                   ![i].pc = IF SameLocation(exists, visitors[v], CallKey(i))
                               THEN "currentCount" ELSE "insert"]
  /\ UNCHANGED <<hubVars, locations, visitors, faults>>

\* The early return: the location's current count, added and isFirst false.
CurrentCount(i) ==
  /\ call[i].pc = "currentCount"
  /\ call' = [call EXCEPT
                ![i].response = [Added |-> FALSE, IsFirst |-> FALSE,
                                 VisitorCount |->
                                   VisitorCount(locations, CallKey(i))],
                ![i].pc = "done"]
  /\ UNCHANGED <<hubVars, locations, visitors, faults>>

\* INSERT OR IGNORE, and RowsAffected.
InsertLocation(i) ==
  /\ call[i].pc = "insert"
  /\ locations' = InsertOrIgnore(locations, call[i].lat, call[i].lng)
  /\ IF Len(locations') > Len(locations)
       THEN call' = [call EXCEPT
                       ![i].response = [Added |-> TRUE, IsFirst |-> TRUE,
                                        VisitorCount |-> 1],
                       ![i].pc = "visitor"]
       ELSE call' = [call EXCEPT ![i].pc = "update"]
  /\ UNCHANGED <<hubVars, visitors, faults>>

\* The location exists: UPDATE ... visitor_count + 1.
UpdateCount(i) ==
  /\ call[i].pc = "update"
  /\ locations' = IncrementCount(locations, CallKey(i))
  /\ call' = [call EXCEPT ![i].pc = "updatedCount"]
  /\ UNCHANGED <<hubVars, visitors, faults>>

\* Get updated count: SELECT visitor_count (sql.ErrNoRows is an error here).
UpdatedCount(i) ==
  /\ call[i].pc = "updatedCount"
  /\ IF RowsAt(locations, CallKey(i)) = {}
       THEN call' = [call EXCEPT ![i].err = TRUE, ![i].pc = "done"]
       ELSE call' = [call EXCEPT
                       ![i].response = [Added |-> FALSE, IsFirst |-> FALSE,
                                        VisitorCount |->
                                          VisitorCount(locations, CallKey(i))],
                       ![i].pc = "visitor"]
  /\ UNCHANGED <<hubVars, locations, visitors, faults>>

\* addOrUpdateVisitor: INSERT ... ON CONFLICT(visitor_id) DO UPDATE.
AddOrUpdateVisitor(i) ==
  /\ call[i].pc = "visitor"
  /\ visitors' = [visitors EXCEPT ![call[i].visitorID] = CallKey(i)]
  /\ call' = [call EXCEPT ![i].pc = "done"]
  /\ UNCHANGED <<hubVars, locations, faults>>

\* The statement the call is at fails: return response, err.
StorageError(i) ==
  /\ call[i].pc \in {"checkVisitor", "currentCount", "insert", "update",
                     "updatedCount", "visitor"}
  /\ faults > 0
  /\ faults' = faults - 1
  /\ call' = [call EXCEPT ![i].err = TRUE, ![i].pc = "done"]
  /\ UNCHANGED <<hubVars, locations, visitors>>

\* addLocationToDB from its first statement to its return, when no statement
\* fails and no other call runs between its statements: the tables it
\* leaves and its response.
RunAlone(rows, vis, v, lat, lng) ==
  LET key == KeyOf(lat, lng)
      inserted == InsertOrIgnore(rows, lat, lng)
      updated == IncrementCount(inserted, key)
  IN IF SameLocation(vis[v] # NoKey, vis[v], key)
       THEN [locations |-> rows, visitors |-> vis,
             response |-> [Added |-> FALSE, IsFirst |-> FALSE,
                           VisitorCount |-> VisitorCount(rows, key)]]
       ELSE IF Len(inserted) > Len(rows)
         THEN [locations |-> inserted,
               visitors |-> [vis EXCEPT ![v] = key],
               response |-> [Added |-> TRUE, IsFirst |-> TRUE,
                             VisitorCount |-> 1]]
         ELSE [locations |-> updated,
               visitors |-> [vis EXCEPT ![v] = key],
               response |-> [Added |-> FALSE, IsFirst |-> FALSE,
                             VisitorCount |-> VisitorCount(updated, key)]]

\* A request that is served from its start to its end while no other is:
\* handleAddLocation and the whole of addLocationToDB.
RecordVisit(i, v, coord) ==
  /\ call[i].pc = "idle"
  /\ \A j \in Calls : j < i => call[j].pc = "done"
  /\ LET r == RunAlone(locations, visitors, v, coord[1], coord[2])
     IN /\ locations' = r.locations
        /\ visitors' = r.visitors
        /\ call' = [call EXCEPT ![i] = [NoCall EXCEPT
                                          !.pc = "done",
                                          !.visitorID = v,
                                          !.lat = coord[1], !.lng = coord[2],
                                          !.exists = visitors[v] # NoKey,
                                          !.old = visitors[v],
                                          !.response = r.response]]
  /\ UNCHANGED <<hubVars, faults>>

VisitNext ==
  \/ \E i \in Calls, v \in Visitors, coord \in Coords : AddLocation(i, v, coord)
  \/ \E i \in Calls : CheckVisitorExists(i)
  \/ \E i \in Calls : CurrentCount(i)
  \/ \E i \in Calls : InsertLocation(i)
  \/ \E i \in Calls : UpdateCount(i)
  \/ \E i \in Calls : UpdatedCount(i)
  \/ \E i \in Calls : AddOrUpdateVisitor(i)
  \/ \E i \in Calls : StorageError(i)

----------------------------------------------------------------------------
\* The specifications.

HubNext ==
  \/ \E c \in Clients : Connect(c)
  \/ \E c \in Clients : SendId(c)
  \/ \E c \in Clients : HubRegister(c)
  \/ HubSnapshot
  \/ HubSendInit
  \/ \E c \in Clients : HubUnregister(c)
  \/ \E r \in Clients : HubFanoutStep(r)
  \/ \E c \in Clients : HubBroadcast(c)
  \/ \E r \in Clients : HubBroadcastStep(r)
  \/ \E c \in Clients, p \in Positions : ReadMove(c, p)
  \/ \E c \in Clients : ReadMoveFanout(c)
  \/ \E c, r \in Clients : ReadFanoutStep(c, r)
  \/ \E c \in Clients : ReadPing(c)
  \/ \E c \in Clients : ReadError(c)
  \/ \E c \in Clients, ok \in BOOLEAN : WriteMessage(c, ok)
  \/ \E c \in Clients : WriteClose(c)
  \/ \E c \in Clients : WriteTickerError(c)

\* The hub with a few sessions, moves and pings.
Init ==
  /\ HubInit([conns |-> MainSessions, moves |-> MaxMoves, pings |-> MaxPings])
  /\ VisitInit

Next == HubNext

Spec == Init /\ [][Next]_vars

\* Sessions that have connected, and then move, ping and go.
LiveNext ==
  \/ \E c \in Clients : HubUnregister(c)
  \/ \E r \in Clients : HubFanoutStep(r)
  \/ \E c \in Clients : HubBroadcast(c)
  \/ \E r \in Clients : HubBroadcastStep(r)
  \/ \E c \in Clients, p \in Positions : ReadMove(c, p)
  \/ \E c \in Clients : ReadMoveFanout(c)
  \/ \E c, r \in Clients : ReadFanoutStep(c, r)
  \/ \E c \in Clients : ReadPing(c)
  \/ \E c \in Clients : ReadError(c)
  \/ \E c \in Clients, ok \in BOOLEAN : WriteMessage(c, ok)
  \/ \E c \in Clients : WriteClose(c)
  \/ \E c \in Clients : WriteTickerError(c)

\* The scheduling.  A goroutine that can run does run; a write ends, for the
\* write deadline; a read on a closed connection fails; among the senders
\* blocked on its channels the hub's select picks at random, and a writer
\* that waits for the mutex keeps new readers out.  No peer is bound to
\* read, or to go away.
Fairness ==
  /\ WF_vars(\E r \in Clients : HubFanoutStep(r))
  /\ WF_vars(\E r \in Clients : HubBroadcastStep(r))
  /\ \A c \in 1..MainSessions :
       /\ SF_vars(HubUnregister(c))
       /\ SF_vars(HubBroadcast(c))
       /\ SF_vars(ReadMoveFanout(c))
       /\ WF_vars(\E r \in Clients : ReadFanoutStep(c, r))
       /\ WF_vars(connClosed[c] /\ ReadError(c))
       /\ WF_vars(\E ok \in BOOLEAN : WriteMessage(c, ok))
       /\ WF_vars(WriteClose(c))

\* The first sessions have connected one after the other, and nothing of
\* what was enqueued for them has been written.
InitLive ==
  /\ clients = 1..MainSessions
  /\ Position = [c \in Clients |-> Nil]
  /\ recentPings = <<>>
  /\ Send = [c \in Clients |->
              IF c \in clients
                THEN <<InitMsg({}, c, <<>>), IdMsg(c)>>
                ELSE <<>>]
  /\ sendClosed = [c \in Clients |-> FALSE]
  /\ connClosed = [c \in Clients |-> FALSE]
  /\ handler = [c \in Clients |-> IF c \in clients THEN "started" ELSE "none"]
  /\ reader = [c \in Clients |-> IF c \in clients THEN "read" ELSE "off"]
  /\ readerMsg = [c \in Clients |-> NoMsg]
  /\ readerTodo = [c \in Clients |-> {}]
  /\ writer = [c \in Clients |-> IF c \in clients THEN "run" ELSE "off"]
  /\ hubpc = "select"
  /\ hubClient = Nil
  /\ hubOk = TRUE
  /\ userCount = 0
  /\ hubMsg = NoMsg
  /\ hubTodo = {}
  /\ now = 0
  /\ crashed = FALSE
  /\ fuel = [conns |-> 0, moves |-> MaxMoves, pings |-> MaxPings]
  /\ VisitInit

SpecLive == InitLive /\ [][LiveNext]_vars /\ Fairness

\* Sessions that come and go, and send nothing.
JoinNext ==
  \/ \E c \in Clients : Connect(c)
  \/ \E c \in Clients : SendId(c)
  \/ \E c \in Clients : HubRegister(c)
  \/ HubSnapshot
  \/ HubSendInit
  \/ \E c \in Clients : HubUnregister(c)
  \/ \E r \in Clients : HubFanoutStep(r)
  \/ \E c \in Clients : ReadError(c)
  \/ \E c \in Clients, ok \in BOOLEAN : WriteMessage(c, ok)
  \/ \E c \in Clients : WriteClose(c)
  \/ \E c \in Clients : WriteTickerError(c)

InitJoin ==
  /\ HubInit([conns |-> NClients, moves |-> 0, pings |-> 0])
  /\ VisitInit

SpecJoin == InitJoin /\ [][JoinNext]_vars

\* Sessions that send a long run of pings, and whose peers read nothing of
\* what is broadcast.
PingNext ==
  \/ \E c \in Clients : HubBroadcast(c)
  \/ \E r \in Clients : HubBroadcastStep(r)
  \/ \E c \in Clients : ReadPing(c)

\* The sessions have connected, and their writers have written the messages
\* of the connecting.
InitPing ==
  /\ clients = 1..PingSessions
  /\ Position = [c \in Clients |-> Nil]
  /\ recentPings = <<>>
  /\ Send = [c \in Clients |-> <<>>]
  /\ sendClosed = [c \in Clients |-> FALSE]
  /\ connClosed = [c \in Clients |-> FALSE]
  /\ handler = [c \in Clients |-> IF c \in clients THEN "started" ELSE "none"]
  /\ reader = [c \in Clients |-> IF c \in clients THEN "read" ELSE "off"]
  /\ readerMsg = [c \in Clients |-> NoMsg]
  /\ readerTodo = [c \in Clients |-> {}]
  /\ writer = [c \in Clients |-> IF c \in clients THEN "run" ELSE "off"]
  /\ hubpc = "select"
  /\ hubClient = Nil
  /\ hubOk = TRUE
  /\ userCount = 0
  /\ hubMsg = NoMsg
  /\ hubTodo = {}
  /\ now = 0
  /\ crashed = FALSE
  /\ fuel = [conns |-> 0, moves |-> 0, pings |-> LongRunPings]
  /\ VisitInit

SpecPing == InitPing /\ [][PingNext]_vars

\* Two requests with coordinates of a range around zero.  A coordinate
\* halfway between two hundredths is left out: the float64 product
\* coord*100 of such a decimal need not be halfway between two integers.
RoundCoords ==
  {coord \in (-MaxCoord..MaxCoord) \X (-MaxCoord..MaxCoord) :
     coord[1] % 10 # 5 /\ coord[2] % 10 # 5}

RoundRequest(i, coord) == i \in {1, 2} /\ AddLocation(i, i, coord)

RoundNext == \E i \in Calls, coord \in RoundCoords : RoundRequest(i, coord)

\* The accounting alone.
InitVisit ==
  /\ HubInit([conns |-> 0, moves |-> 0, pings |-> 0])
  /\ VisitInit

NextVisit == VisitNext

SpecVisit == InitVisit /\ [][NextVisit]_vars

SpecRound == InitVisit /\ [][RoundNext]_vars

\* The accounting, one request after the other.
SeqNext ==
  \E i \in Calls, v \in Visitors, coord \in Coords : RecordVisit(i, v, coord)

SpecSeq == InitVisit /\ [][SeqNext]_vars

\* A session is connected and its writer has written the messages of the
\* connecting; the next session connects while the first moves and pings.
InitSetup ==
  /\ clients = {1}
  /\ Position = [c \in Clients |-> Nil]
  /\ recentPings = <<>>
  /\ Send = [c \in Clients |-> <<>>]
  /\ sendClosed = [c \in Clients |-> FALSE]
  /\ connClosed = [c \in Clients |-> FALSE]
  /\ handler = [c \in Clients |-> IF c \in clients THEN "started" ELSE "none"]
  /\ reader = [c \in Clients |-> IF c \in clients THEN "read" ELSE "off"]
  /\ readerMsg = [c \in Clients |-> NoMsg]
  /\ readerTodo = [c \in Clients |-> {}]
  /\ writer = [c \in Clients |-> IF c \in clients THEN "run" ELSE "off"]
  /\ hubpc = "select"
  /\ hubClient = Nil
  /\ hubOk = TRUE
  /\ userCount = 0
  /\ hubMsg = NoMsg
  /\ hubTodo = {}
  /\ now = 0
  /\ crashed = FALSE
  /\ fuel = [conns |-> MainSessions - 1, moves |-> MaxMoves,
             pings |-> MaxPings]
  /\ VisitInit

\* The scheduling of the connecting: the handler runs on to its send of the
\* "id" message when the channel takes it, and the hub, which receives the
\* waiting register request, runs the register case to its end.
SetupFairness ==
  /\ WF_vars(HubSnapshot)
  /\ WF_vars(HubSendInit)
  /\ \A c \in 1..MainSessions :
       /\ SF_vars(HubRegister(c))
       /\ WF_vars(SendId(c))

SpecSetup == InitSetup /\ [][HubNext]_vars /\ Fairness /\ SetupFairness

----------------------------------------------------------------------------
\* The claims.

Last(q) == q[Len(q)]

\* Some fan-out (the hub's broadcastToOthers or broadcast case, or a reader's
\* broadcastToOthers) deals with recipient r in this step.
FanoutVisits(r) ==
  \/ hubpc \in {"fanout", "broadcast"} /\ r \in hubTodo /\ r \notin hubTodo'
  \/ \E c \in Clients :
       reader[c] = "fanout" /\ r \in readerTodo[c] /\ r \notin readerTodo'[c]

\* C1: no outbound queue ever holds a "move" message tagged with the identity
\* of the session the queue belongs to.
C1_NoMoveEcho ==
  \A c \in Clients : \A k \in 1..Len(Send[c]) :
    ~(Send[c][k].type = "move" /\ Send[c][k].id = c)

\* A session's move has been fanned out and is in another session's queue.
C1_Witness ==
  \E c, d \in Clients :
    /\ c # d
    /\ \E k \in 1..Len(Send[d]) : Send[d][k].type = "move" /\ Send[d][k].id = c

\* C2: whenever a fan-out of any kind finds a live session's outbound queue
\* full, that step removes the session from the live set and closes its
\* queue.
C2_FullQueueEvicted ==
  [][\A r \in Clients :
       (FanoutVisits(r) /\ r \in clients /\ ~sendClosed[r]
          /\ QLen(r) = QueueCap)
       => (r \notin clients' /\ sendClosed'[r])]_vars

\* C5: when the handler enqueues a session's "id" message, the message
\* enqueued last before it on that queue is the session's "init" snapshot.
\* (Nothing is received from the queue before the pumps start, so the queue
\* holds all that was enqueued.)
C5_InitThenId ==
  [][\A c \in Clients :
       (handler[c] = "sendId" /\ handler'[c] = "started")
       => (Send[c] # <<>> /\ Last(Send[c]).type = "init")]_vars

\* The hub deals with an unregister request for a session that is not in the
\* live set: the receive and the section under Lock, or a step of the
\* fan-out that follows.
AbsentUnregisterStep ==
  \/ \E c \in Clients :
       reader[c] = "unregister" /\ reader'[c] = "done" /\ c \notin clients
  \/ hubpc = "fanout" /\ ~hubOk /\ hubTodo' # hubTodo

\* C6, as the claim has it: an unregister request for a session that is not
\* in the live set changes neither the live set, nor a stored position, nor
\* whether a queue is closed, nor the contents of a queue.
C6_AbsentUnregisterNoOp ==
  [][AbsentUnregisterStep
       => /\ clients' = clients
          /\ Position' = Position
          /\ sendClosed' = sendClosed
          /\ Send' = Send]_vars

\* C6, amended: such a request changes neither the live set, nor a stored
\* position, nor whether a queue is closed, and the hub does not panic; each
\* queue is left as it is or gets one "leave" message tagged with the absent
\* session and carrying the size of the live set.
C6_AbsentUnregisterFrame ==
  [][AbsentUnregisterStep
       => /\ clients' = clients
          /\ Position' = Position
          /\ sendClosed' = sendClosed
          /\ ~crashed'
          /\ \A r \in Clients :
               \/ Send'[r] = Send[r]
               \/ /\ r \in clients
                  /\ hubMsg.type = "leave" /\ hubMsg.id \notin clients
                  /\ hubMsg.userCount = Cardinality(clients)
                  /\ Send'[r] = Append(Send[r], hubMsg)]_vars

\* The hub is fanning out the "leave" of a session that it had evicted
\* before the session's unregister request came.
C6_Witness ==
  /\ hubpc = "fanout" /\ ~hubOk
  /\ hubMsg.type = "leave" /\ sendClosed[hubMsg.id]

\* A loop of session c has failed; both have ended and the hub has dealt
\* with the session's unregister request.
LoopFailed(c) == reader[c] \in {"unregister", "done"} \/ writer[c] = "done"

TornDown(c) == reader[c] = "done" /\ writer[c] = "done" /\ c \notin clients

\* C7: a session's unregister request, once the hub has received it, is not
\* followed by another; and a session of which a loop has failed comes to
\* have both loops ended, its one request received, and no place in the live
\* set.
C7_UnregisterOnce ==
  /\ [][\A c \in Clients : reader[c] = "done" => reader'[c] = "done"]_vars
  /\ \A c \in Clients : LoopFailed(c) ~> TornDown(c)

\* C8: every register, unregister and ping request that waits for the hub
\* is received, and every fan-out of a move that a reader has started comes
\* to its end, whether or not a peer reads its queue.
C8_BroadcasterNeverWaits ==
  \A c \in Clients :
    /\ (handler[c] = "register") ~> (handler[c] # "register")
    /\ (reader[c] = "unregister") ~> (reader[c] = "done")
    /\ (reader[c] = "pinged") ~> (reader[c] # "pinged")
    /\ (reader[c] \in {"moved", "fanout"}) ~> (reader[c] = "read")

\* The sessions that have been registered, and: none has left.
Registered == {c \in Clients : handler[c] \notin {"none", "register"}}

NoDeparture == \A c \in Clients : reader[c] # "done" /\ ~sendClosed[c]

\* C3: an "init", "join" or "leave" message carries, when it is enqueued, the
\* size of the live set; and as long as no session has left, the message of
\* the k-th registration carries k (N for the last of N), and a "join"
\* carries more than every "join" that is in the same queue before it.
C3_CountIsLiveSet ==
  [][\A r \in Clients :
       (Len(Send'[r]) = Len(Send[r]) + 1
          /\ Last(Send'[r]).type \in {"init", "join", "leave"})
       => LET m == Last(Send'[r])
          IN /\ m.userCount = Cardinality(clients)
             /\ m.userCount = Cardinality(clients')
             /\ (NoDeparture /\ m.type \in {"init", "join"})
                => /\ m.userCount = Cardinality(Registered)
                   /\ m.type = "init" => (r = m.userCount)
                   /\ m.type = "join" =>
                        /\ m.id = m.userCount
                        /\ \A k \in 1..Len(Send[r]) :
                             Send[r][k].type = "join"
                             => Send[r][k].userCount < m.userCount]_vars

\* All the sessions have registered, none has left, and the first has the
\* "join" messages of two later ones in its queue, the last with the count
\* of them all.
C3_Witness ==
  /\ NoDeparture
  /\ Registered = Clients
  /\ \E r \in Clients :
       /\ Len(Send[r]) = 2
       /\ Send[r][1].type = "join" /\ Send[r][2].type = "join"
       /\ Send[r][2].userCount = NClients

\* The pings of the run, in the order of their arrival, from the i-th to the
\* j-th.
PingsFromTo(i, j) == [k \in 1..(j - i + 1) |-> PingData(i + k - 1)]

\* C4: the ping history never holds more than 10 entries, and after n pings
\* it is the last min(n, 10) of them in the order of their arrival; after 15
\* pings it is the 6th to the 15th.
C4_LastTenPings ==
  /\ Len(recentPings) <= PingHistory
  /\ recentPings =
       PingsFromTo(IF now > PingHistory THEN now - PingHistory + 1 ELSE 1, now)
  /\ now = 15 => recentPings = PingsFromTo(6, 15)

\* Fifteen pings have been read, the last two by two sessions.
C4_Witness ==
  /\ now = 15
  /\ Len(recentPings) = PingHistory
  /\ \E c, d \in Clients :
       /\ c # d
       /\ readerMsg[c].type = "ping" /\ readerMsg[c].ping = PingData(15)
       /\ readerMsg[d].type = "ping" /\ readerMsg[d].ping = PingData(14)

\* This step is one of call i, past its start.
StepOf(i) == call[i].pc \notin {"idle", "done"} /\ call'[i] # call[i]

\* Call i is a repeated visit: the visitor's record holds the key of the
\* call's coordinates, when the call reads the record or as it has read it.
RepeatedVisit(i) ==
  IF call[i].pc = "checkVisitor"
    THEN visitors[call[i].visitorID] = CallKey(i)
    ELSE call[i].exists /\ call[i].old = CallKey(i)

\* C9: a call of a visitor whose record holds the key of the call's
\* coordinates changes neither table, and returns added false, isFirst false
\* and the location's current count.
C9_RepeatedVisitIdempotent ==
  [][\A i \in Calls :
       (StepOf(i) /\ RepeatedVisit(i))
       => /\ locations' = locations
          /\ visitors' = visitors
          /\ (call'[i].pc = "done" /\ ~call'[i].err)
             => call'[i].response =
                  [Added |-> FALSE, IsFirst |-> FALSE,
                   VisitorCount |-> VisitorCount(locations, CallKey(i))]]_vars

\* A repeated visit has returned, with the count of a location that is there.
C9_Witness ==
  \E i \in Calls :
    /\ call[i].pc = "done" /\ ~call[i].err
    /\ call[i].exists /\ call[i].old = CallKey(i)
    /\ call[i].response.VisitorCount >= 1
    /\ visitors[call[i].visitorID] = CallKey(i)

\* Calls i and j are of two visitors, for one key that no other call is
\* for, and have both returned without an error.
TwoFirstVisits(i, j) ==
  /\ i # j
  /\ call[i].pc = "done" /\ ~call[i].err
  /\ call[j].pc = "done" /\ ~call[j].err
  /\ call[i].visitorID # call[j].visitorID
  /\ CallKey(i) = CallKey(j)
  /\ \A k \in Calls \ {i, j} : call[k].pc = "idle" \/ CallKey(k) # CallKey(i)

\* C10: of the calls of two visitors for one new key, in whatever order
\* their statements ran, exactly one returns isFirst true, and the key has
\* one row, whose count is 2.
C10_OneFirstCountTwo ==
  \A i, j \in Calls :
    TwoFirstVisits(i, j)
    => /\ call[i].response.IsFirst # call[j].response.IsFirst
       /\ Cardinality(RowsAt(locations, CallKey(i))) = 1
       /\ VisitorCount(locations, CallKey(i)) = 2

\* Two such calls have returned; the one that was not the first returned the
\* count 2.
C10_Witness ==
  \E i, j \in Calls :
    /\ TwoFirstVisits(i, j)
    /\ call[i].response.IsFirst
    /\ call[j].response = [Added |-> FALSE, IsFirst |-> FALSE,
                           VisitorCount |-> 2]

\* The grouping keys of the run, and the visitors whose calls for a key have
\* returned without an error.
Keys == {KeyOf(coord[1], coord[2]) : coord \in Coords}

RegisteredAt(key) ==
  {call[i].visitorID :
     i \in {j \in Calls : /\ call[j].pc = "done" /\ ~call[j].err
                          /\ CallKey(j) = key}}

\* C11: after any sequence of calls, one after the other, the count of every
\* location is the number of distinct visitors that have registered at its
\* key.
C11_CountIsDistinctVisitors ==
  \A key \in Keys :
    VisitorCount(locations, key) = Cardinality(RegisteredAt(key))

\* C12: served alone, a call of a visitor whose record is absent or holds
\* another key returns added, isFirst and the count 1 if the key had no row,
\* and else neither and the count as it was plus one; the row holds the
\* count returned, the visitor's record the key, and the count of every other
\* key and the record of every other visitor are as they were.
C12_SequentialVisit ==
  [][\A i \in Calls :
       (call[i].pc = "idle" /\ call'[i].pc = "done")
       => LET v == call'[i].visitorID
              key == KeyOf(call'[i].lat, call'[i].lng)
              resp == call'[i].response
          IN visitors[v] # key
             => /\ resp = IF RowsAt(locations, key) = {}
                            THEN [Added |-> TRUE, IsFirst |-> TRUE,
                                  VisitorCount |-> 1]
                            ELSE [Added |-> FALSE, IsFirst |-> FALSE,
                                  VisitorCount |->
                                    VisitorCount(locations, key) + 1]
                /\ VisitorCount(locations', key) = resp.VisitorCount
                /\ Cardinality(RowsAt(locations', key)) = 1
                /\ visitors'[v] = key
                /\ \A k \in Keys \ {key} :
                     VisitorCount(locations', k) = VisitorCount(locations, k)
                /\ \A w \in Visitors \ {v} : visitors'[w] = visitors[w]]_vars

\* A visitor has moved from one key to another that had a row, while a third
\* call's key has a row as well.
C12_Witness ==
  \E i \in Calls :
    /\ call[i].pc = "done"
    /\ call[i].exists /\ call[i].old # CallKey(i)
    /\ call[i].response = [Added |-> FALSE, IsFirst |-> FALSE,
                           VisitorCount |-> 2]
    /\ VisitorCount(locations, call[i].old) = 1

Abs(x) == IF x >= 0 THEN x ELSE -x

Started == {i \in Calls : call[i].pc # "idle"}

\* The hundredths a coordinate of RoundCoords may be rounded to.
Hundredths == -(MaxCoord \div 10 + 1)..(MaxCoord \div 10 + 1)

\* C13, as the claim has it: two pairs of coordinates whose latitudes differ
\* by at most 0.005 and whose longitudes do have the same grouping key.
C13_CloseCoordsSameKey ==
  \A i, j \in Started :
    (/\ Abs(call[i].lat - call[j].lat) <= 5
     /\ Abs(call[i].lng - call[j].lng) <= 5)
    => CallKey(i) = CallKey(j)

\* C13, amended: the key of a pair of coordinates is the pair of hundredths
\* nearest to them; so two pairs whose latitudes are less than 0.005 from
\* one hundredth, and whose longitudes are less than 0.005 from one
\* hundredth, have the same key, that pair of hundredths.
C13_SameHundredthSameKey ==
  /\ \A i \in Started :
       /\ Abs(10 * CallKey(i)[1] - call[i].lat) < 5
       /\ Abs(10 * CallKey(i)[2] - call[i].lng) < 5
  /\ \A i, j \in Started : \A h, k \in Hundredths :
       (/\ Abs(call[i].lat - 10 * h) < 5 /\ Abs(call[j].lat - 10 * h) < 5
        /\ Abs(call[i].lng - 10 * k) < 5 /\ Abs(call[j].lng - 10 * k) < 5)
       => (CallKey(i) = <<h, k>> /\ CallKey(j) = <<h, k>>)

\* Two requests with coordinates that differ, below zero and above, and have
\* one key, which is not the origin's.
C13_Witness ==
  \E i, j \in Started :
    /\ call[i].lat < call[j].lat /\ call[j].lat < 0
    /\ call[i].lng > call[j].lng /\ call[j].lng > 0
    /\ CallKey(i) = CallKey(j)
    /\ CallKey(i) = <<-1, 1>>

\* C14: the "init" message the hub builds for a new session holds the
\* stored position of every other live session that has one, each as it is
\* stored then, and no entry else, none for the new session; it holds the
\* ping history as it is then; and a ping that is recorded later changes
\* neither the message built nor a message in a queue.
C14_InitSnapshot ==
  [][/\ (hubpc = "snapshot" /\ hubpc' = "init")
        => /\ hubMsg'.type = "init"
           /\ \A d \in clients \ {hubClient} :
                Position[d] # Nil => <<d, Position[d]>> \in hubMsg'.cursors
           /\ \A e \in hubMsg'.cursors :
                /\ e[1] \in clients \ {hubClient}
                /\ e[2] # Nil
                /\ e[2] = Position[e[1]]
           /\ hubMsg'.pings = recentPings
     /\ (recentPings' # recentPings)
        => (hubMsg' = hubMsg /\ Send' = Send)]_vars

\* The "init" message of a new session is built, with the position of a
\* session that has moved and without the one that has not, and a ping has
\* been recorded since.
C14_Witness ==
  /\ hubpc = "init"
  /\ hubMsg.type = "init"
  /\ hubMsg.cursors # {}
  /\ hubMsg.pings # recentPings

\* The elements of a sequence.
Range(q) == {q[k] : k \in 1..Len(q)}

\* C15: when the hub receives a session's "ping" message for its fan-out,
\* the ping is in the history, or was and has been pushed out by 10 later
\* ones, and the fan-out is to be to every live session, the sender among
\* them if it is live; and the fan-out enqueues the message on the queue of
\* each of them that has room.
C15_PingStoredThenFannedOut ==
  [][/\ \A c \in Clients :
          (reader[c] = "pinged" /\ reader'[c] = "read")
          => /\ readerMsg[c].type = "ping" /\ readerMsg[c].id = c
             /\ \/ readerMsg[c].ping \in Range(recentPings)
                \/ now - readerMsg[c].ping.timestamp >= PingHistory
             /\ clients # {} => (hubMsg' = readerMsg[c] /\ hubTodo' = clients)
     /\ \A r \in Clients :
          (hubpc = "broadcast" /\ r \in hubTodo /\ r \notin hubTodo'
             /\ QLen(r) < QueueCap)
          => (r \in clients /\ Send'[r] = Append(Send[r], hubMsg))]_vars

\* A session's ping is in the history and, fanned out, in the session's own
\* queue and in another's.
C15_Witness ==
  \E c, d \in Clients :
    /\ c # d
    /\ Send[c] # <<>> /\ Send[d] # <<>>
    /\ Last(Send[c]).type = "ping" /\ Last(Send[c]).id = c
    /\ Last(Send[d]) = Last(Send[c])
    /\ Last(Send[c]).ping \in Range(recentPings)
    /\ hubpc = "select"

Broadcasts == {"join", "leave", "move", "ping"}

\* C16: the "init" message of a session is enqueued on its queue, and before
\* every broadcast that is enqueued on it: when the hub goes on from its
\* sending of "init", the message is in the queue or has been written, and
\* no queue holds a "join", "leave", "move" or "ping" message before an
\* "init" message.
C16_InitBeforeBroadcasts ==
  /\ \A c \in Clients : \A k \in 1..Len(Send[c]) :
       Send[c][k].type = "init"
       => \A j \in 1..(k - 1) : Send[c][j].type \notin Broadcasts
  /\ \A c \in Clients :
       (handler[c] = "sendId" /\ ~(hubClient = c /\ hubpc \in {"snapshot", "init"}))
       => \E k \in 1..Len(Send[c]) : Send[c][k].type = "init"

\* The calls of a sequence, each served alone, one after the other, from
\* empty tables: the tables they leave and the response of each.
RECURSIVE SerialRun(_)
SerialRun(order) ==
  IF order = <<>>
    THEN [locations |-> <<>>,
          visitors |-> [v \in Visitors |-> NoKey],
          response |-> [i \in Calls |-> NoResponse]]
    ELSE LET before == SerialRun(SubSeq(order, 1, Len(order) - 1))
             i == order[Len(order)]
             r == RunAlone(before.locations, before.visitors,
                           call[i].visitorID, call[i].lat, call[i].lng)
         IN [locations |-> r.locations,
             visitors |-> r.visitors,
             response |-> [before.response EXCEPT ![i] = r.response]]

\* The orders of a set of calls.
Orders(S) ==
  {o \in [1..Cardinality(S) -> S] :
     \A a, b \in 1..Cardinality(S) : a # b => o[a] # o[b]}

\* The calls that were made have returned, none with an error, and were all
\* for one key.
ReturnedOnOneKey ==
  /\ Started # {}
  /\ \A i \in Started : call[i].pc = "done" /\ ~call[i].err
  /\ \A i, j \in Started : CallKey(i) = CallKey(j)

\* C17: when calls for one key have run with their statements interleaved
\* and have returned, the count of the location, the visitors' records and
\* the responses are those of the calls served one after the other in some
\* order.
C17_Serializable ==
  ReturnedOnOneKey
  => \E o \in Orders(Started) :
       LET r == SerialRun(o)
       IN /\ \A key \in Keys :
               VisitorCount(locations, key) = VisitorCount(r.locations, key)
          /\ visitors = r.visitors
          /\ \A i \in Started : call[i].response = r.response[i]

\* C18: no session is added to the live set or deleted from it, and no
\* queue is closed, while a reader's broadcastToOthers ranges over the live
\* set under RLock.
C18_MutationsExclusive ==
  [][(clients' # clients \/ sendClosed' # sendClosed)
       => \A c \in Clients : reader[c] # "fanout"]_vars

\* C20: no send is on a closed queue and no queue is closed twice: the "id"
\* send of no handler and no send of a fan-out has panicked, nor has a close.
C20_NoSendOnClosed ==
  /\ ~crashed
  /\ \A c \in Clients : handler[c] # "panicked"

\* C19: a call that fails with a storage error leaves the tables as they
\* were before it; so when the first call of a run has failed and no other
\* call has been made, both tables are empty.
C19_NoPartialMutation ==
  \A i \in Calls :
    (/\ call[i].pc = "done" /\ call[i].err
     /\ \A j \in Calls \ {i} : call[j].pc = "idle")
    => (locations = <<>> /\ visitors = [v \in Visitors |-> NoKey])

\* Session c is in the live set and waits for its handler to enqueue the
\* "id" message; the handler has started the session's writer and reader.
SetupPending(c) == handler[c] = "sendId"

SetupDone(c) == handler[c] = "started" /\ writer[c] # "off" /\ reader[c] # "off"

\* C21: after a session is handed to the hub for registration, the
\* handler's enqueue of the "id" message comes to succeed and the session's
\* writer and reader are started, whatever the other sessions broadcast
\* meanwhile; no session stays in the live set for ever with no writer.
C21_SetupCompletes ==
  /\ \A c \in Clients : SetupPending(c) ~> SetupDone(c)
  /\ \A c \in Clients : []<>~(c \in clients /\ writer[c] = "off")

\* This step enqueues a message on r's queue: the queue's new last one.
Enqueues(r) == Len(Send'[r]) > Len(Send[r])

\* Session c has been evicted for a full queue or unregistered: both close
\* its queue.
Gone(c) == sendClosed[c]

\* C22: a "move" or "ping" message is enqueued only while the session it is
\* tagged with is in the live set, and a ping is appended to the history
\* only by a session in the live set; once a session has been evicted or
\* unregistered, no message tagged with it is enqueued but its "leave".
C22_OnlyLiveTraffic ==
  [][/\ \A r \in Clients :
          Enqueues(r) =>
            LET m == Last(Send'[r])
            IN /\ m.type \in {"move", "ping"} => m.id \in clients
               /\ (m.id # Nil /\ Gone(m.id)) => m.type = "leave"
     /\ recentPings' # recentPings =>
          \E c \in clients : reader[c] = "read" /\ reader'[c] = "pinged"]_vars

====
